---- MODULE Spec2Model ----
(***************************************************************************)
(* Model of the Telium text adventure (src/main.py): the station's module *)
(* graph, the entities and their positions, the health model, the player  *)
(* commands `go` and `lock`, the Telium's flight and the WorkerAlien       *)
(* combat loop, and the station's energy pool.                             *)
(***************************************************************************)
EXTENDS Integers, Sequences, FiniteSets, TLC

\* ------------------------------------------------------------------------
\* Bounds of the model
\* ------------------------------------------------------------------------
\* Number of WorkerAlien instances spawned (the game spawns NUM_WORKER_ALIENS
\* of them, src/main.py:31; the model spawns this many).
NumWorkerAliens == 1
\* Number of `go` commands that reach move_to in one run.
MaxMoves == 2
\* Largest absolute amount tried against deplete_energy / hurt as functions.
MaxAmount == 30

\* ------------------------------------------------------------------------
\* Program constants
\* ------------------------------------------------------------------------
LOCK_MODULE_ENERGY == 20
INITIAL_ENERGY == 100
PLAYER_HEALTH == 100
PLAYER_FUEL == 100
WOUNDED_HEALTH == 4
ESCAPE_STEPS_MIN == 1
ESCAPE_STEPS_MAX == 3

DIRECTIONS ==
    {"north", "northeast", "east", "southeast",
     "south", "southwest", "west", "northwest"}

AliasNames == {"n", "ne", "e", "se", "s", "sw", "w", "nw"}

DIRECTION_ALIASES ==
    [a \in AliasNames |->
        CASE a = "n"  -> "north"
          [] a = "ne" -> "northeast"
          [] a = "e"  -> "east"
          [] a = "se" -> "southeast"
          [] a = "s"  -> "south"
          [] a = "sw" -> "southwest"
          [] a = "w"  -> "west"
          [] a = "nw" -> "northwest"]

\* The absent module reference (Python None).
None == "none"

\* ------------------------------------------------------------------------
\* The station's module graph (the content of space_modules.json): three
\* modules joined in a triangle, one of them with a door that leads back to
\* itself.
\* ------------------------------------------------------------------------
Modules == {"bridge", "lab", "cargo"}

Doors ==
    [m \in Modules |->
        CASE m = "bridge" -> [d \in {"east", "south"} |->
                                IF d = "east" THEN "lab" ELSE "cargo"]
          [] m = "lab"    -> [d \in {"west", "south"} |->
                                IF d = "west" THEN "bridge" ELSE "cargo"]
          [] m = "cargo"  -> [d \in {"north", "northeast", "east"} |->
                                CASE d = "north" -> "bridge"
                                  [] d = "northeast" -> "lab"
                                  [] d = "east" -> "cargo"]]

\* ------------------------------------------------------------------------
\* Entities, identified by their index in the global `entities` list
\* ------------------------------------------------------------------------
player == 0
telium == 1
worker_aliens == 2 .. (1 + NumWorkerAliens)
Entities == {player, telium} \cup worker_aliens
Hurtables == {player} \cup worker_aliens

\* Values randint draws at a WorkerAlien's creation.
\* <<health, attack>>, from randint(8, 12) and randint(5, 10).
SpawnStats == {<<8, 10>>, <<12, 5>>}

\* Inputs typed by the user.
GoTokens == {"north", "ne", "east", "e", "south", "w", "sw", "up"}
LockTargets == {"bridge", "cargo", "airlock"}
FuelInputs == {0, 8, 101}
\* With a negative amount, which int_input accepts like any integer.
IntegerInputs == FuelInputs \cup {-5}
\* The inputs of the runs that concentrate on the other commands.
FewGoTokens == {"e", "south", "w", "up"}
FewLockTargets == {"cargo", "airlock"}
FewFuelInputs == {8, 101}

VARIABLES
    module,                  \* entity.module
    previous_module,         \* entity.previous_module
    entities,                \* module.entities, a list per module
    visited_by_player,       \* module.visited_by_player
    telium_visited_recently, \* module.telium_visited_recently
    health,                  \* hurtable._health
    alive,                   \* hurtable.alive
    attack,                  \* worker_alien.attack
    flamethrower_fuel,       \* player.flamethrower_fuel
    locked_module,           \* player.locked_module
    energy,                  \* station._energy
    pc,                      \* where control is
    pending,                 \* entities move_to has still to notify
    cur,                     \* the entity whose reaction is running
    steps,                   \* iterations left in the Telium's escape loop
    use_fuel,                \* the combat loop's local: the amount last typed
    report,                  \* the last message a command or prompt printed
    lights_out,              \* how many times the lights-out message was printed
    moves                    \* go commands that reached move_to

vars == <<module, previous_module, entities, visited_by_player,
          telium_visited_recently, health, alive, attack, flamethrower_fuel,
          locked_module, energy, pc, pending, cur, steps, use_fuel, report,
          lights_out,
          moves>>

\* ------------------------------------------------------------------------
\* Helpers
\* ------------------------------------------------------------------------
\* list.remove(x): drop the first occurrence of x.
RECURSIVE Remove(_, _)
Remove(s, x) ==
    IF s = <<>> THEN <<>>
    ELSE IF Head(s) = x THEN Tail(s)
    ELSE <<Head(s)>> \o Remove(Tail(s), x)

\* list(filter(pred, s)) for the membership predicate of a set.
RECURSIVE Filter(_, _)
Filter(s, keep) ==
    IF s = <<>> THEN <<>>
    ELSE IF Head(s) \in keep THEN <<Head(s)>> \o Filter(Tail(s), keep)
    ELSE Filter(Tail(s), keep)

\* list.count(x).
Count(s, x) == Cardinality({i \in 1 .. Len(s) : s[i] = x})

\* hurt without the clamp at zero.
HurtUnclamped(h, a) == h - a

\* hurt that does no damage.
HurtMisses(h, a) == h

\* Hurtable.hurt: the health left after an attack.
Hurt(h, a) == IF h - a > 0 THEN h - a ELSE 0

\* hurt that never clears the alive flag.
AliveAfterKeeps(was, h) == was

\* hurt that clears the alive flag of a wounded creature already.
AliveAfterWounded(was, h) == IF h <= WOUNDED_HEALTH THEN FALSE ELSE was

\* Hurtable.hurt: the alive flag after an attack that leaves health h.
AliveAfter(was, h) == IF h = 0 THEN FALSE ELSE was

\* deplete_energy without the clamp at zero.
DepleteEnergyUnclamped(e, amount) == e - amount

\* deplete_energy that leaves the pool alone when it cannot pay the amount.
DepleteEnergyKeeps(e, amount) == IF e - amount > 0 THEN e - amount ELSE e

\* SpaceStation.deplete_energy: the energy left.
DepleteEnergy(e, amount) == IF e - amount > 0 THEN e - amount ELSE 0

\* SpaceStation.deplete_energy: whether the lights-out message is printed.
LightsMessage(e) == e = 0

\* _set_module that forgets to take the entity out of the module it leaves.
SetModuleEntitiesNoRemove(ents, from, e, m) == [ents EXCEPT ![m] = Append(@, e)]

\* _set_module that empties the list of the module the entity leaves.
SetModuleEntitiesClears(ents, from, e, m) ==
    [[ents EXCEPT ![from] = <<>>] EXCEPT ![m] = Append(@, e)]

\* Entity._set_module: the module lists after entity e moves to module m.
SetModuleEntities(ents, from, e, m) ==
    LET removed == [ents EXCEPT ![from] = Remove(@, e)]
    IN  [removed EXCEPT ![m] = Append(@, e)]

\* Module.random that ignores the modules to exclude.
RandomModulesAll(exclude) == Modules

\* Module.random(exclude): the modules the choice is made among.
RandomModules(exclude) == {m \in Modules : m \notin exclude}

\* ------------------------------------------------------------------------
\* Start-up: the state when the game loop first prompts
\* ------------------------------------------------------------------------
\* The global `entities` list, in creation order.
AllEntities == [i \in 1 .. (2 + NumWorkerAliens) |-> i - 1]

\* module.entities after every Entity.__init__ has appended itself.
InitialEntities(mod) ==
    [m \in Modules |-> Filter(AllEntities, {e \in Entities : mod[e] = m})]

Init ==
    /\ \E pm \in RandomModules({}) :
         /\ module \in [Entities -> Modules]
         /\ module[player] = pm
         /\ \A e \in Entities \ {player} : module[e] \in RandomModules({pm})
         /\ visited_by_player = [m \in Modules |-> m = pm]
    /\ entities = InitialEntities(module)
    /\ previous_module = [e \in Entities |-> None]
    /\ telium_visited_recently = [m \in Modules |-> FALSE]
    /\ \E stats \in [worker_aliens -> SpawnStats] :
         /\ health = [e \in Hurtables |->
                         IF e = player THEN PLAYER_HEALTH ELSE stats[e][1]]
         /\ attack = [e \in worker_aliens |-> stats[e][2]]
    /\ alive = [e \in Hurtables |-> TRUE]
    /\ flamethrower_fuel = PLAYER_FUEL
    /\ locked_module = None
    /\ energy = INITIAL_ENERGY
    /\ pc = "prompt"
    /\ pending = <<>>
    /\ cur = player
    /\ steps = 0
    /\ use_fuel = 0
    /\ report = "introduce"
    /\ lights_out = 0
    /\ moves = 0

\* A lookup that takes any unknown word for east.
DirectionLenient(token) ==
    IF token \in DOMAIN DIRECTION_ALIASES THEN DIRECTION_ALIASES[token]
    ELSE IF token \in DIRECTIONS THEN token
    ELSE "east"

\* ------------------------------------------------------------------------
\* Commands
\* ------------------------------------------------------------------------
\* Player.go_in_direction: the direction a token stands for.
Direction(token) ==
    IF token \in DOMAIN DIRECTION_ALIASES THEN DIRECTION_ALIASES[token] ELSE token

\* A move_to that notifies nobody.
ObserversNone(list) == <<>>

\* The non-player entities of a module list, in list order (the snapshot
\* move_to iterates over).
Observers(list) == Filter(list, Entities \ {player})

\* move_to that does not record the module the player leaves.
MoveToKeepsPrevious(target) ==
    LET from == module[player]
        ents == SetModuleEntities(entities, from, player, target)
    IN  /\ entities' = ents
        /\ UNCHANGED previous_module
        /\ module' = [module EXCEPT ![player] = target]
        /\ visited_by_player' = [visited_by_player EXCEPT ![target] = TRUE]
        /\ pending' = Observers(ents[target])
        /\ pc' = "notify"
        /\ report' = "entered"

\* Player.move_to(target, introduce=True), up to the start of the observer loop.
MoveTo(target) ==
    LET from == module[player]
        ents == SetModuleEntities(entities, from, player, target)
    IN  /\ entities' = ents
        /\ previous_module' = [previous_module EXCEPT ![player] = from]
        /\ module' = [module EXCEPT ![player] = target]
        /\ visited_by_player' = [visited_by_player EXCEPT ![target] = TRUE]
        /\ pending' = Observers(ents[target])
        /\ pc' = "notify"
        /\ report' = "entered"

\* The `go` command.
Go(token) ==
    /\ pc = "prompt"
    /\ LET direction == Direction(token)
       IN  IF direction \notin DIRECTIONS
           THEN /\ report' = "not a compass direction"
                /\ UNCHANGED <<module, previous_module, entities,
                               visited_by_player, pc, pending, moves>>
           ELSE IF direction \notin DOMAIN Doors[module[player]]
           THEN /\ report' = "bump into the wall"
                /\ UNCHANGED <<module, previous_module, entities,
                               visited_by_player, pc, pending, moves>>
           ELSE /\ moves < MaxMoves
                /\ moves' = moves + 1
                /\ MoveTo(Doors[module[player]][direction])
    /\ UNCHANGED <<telium_visited_recently, health, alive, attack,
                   flamethrower_fuel, locked_module, energy, cur, steps,
                   lights_out, use_fuel>>

\* The energy test off by one.
EnoughEnergyStrict(e) == e > LOCK_MODULE_ENERGY

\* The energy test left out.
EnoughEnergyAlways(e) == TRUE

\* The guard of the lock command's energy test.
EnoughEnergy(e) == e >= LOCK_MODULE_ENERGY

\* The `lock` command.
Lock(target) ==
    /\ pc = "prompt"
    /\ IF target \notin Modules
       THEN /\ report' = "no such module"
            /\ UNCHANGED <<locked_module, energy, lights_out>>
       ELSE IF target = locked_module
       THEN /\ report' = "already locked"
            /\ UNCHANGED <<locked_module, energy, lights_out>>
       ELSE IF EnoughEnergy(energy)
       THEN /\ locked_module' = target
            /\ energy' = DepleteEnergy(energy, LOCK_MODULE_ENERGY)
            /\ lights_out' = IF LightsMessage(energy') THEN lights_out + 1
                             ELSE lights_out
            /\ report' = "locked"
       ELSE /\ report' = "insufficient energy"
            /\ UNCHANGED <<locked_module, energy, lights_out>>
    /\ UNCHANGED <<module, previous_module, entities, visited_by_player,
                   telium_visited_recently, health, alive, attack,
                   flamethrower_fuel, pc, pending, cur, steps, moves, use_fuel>>

\* An observer loop that does not break when the player has died.
AfterReactionGoesOn(player_alive) == "notify"

\* A return from a reaction that hands a dead player back to the prompt.
AfterReactionPrompts(player_alive) == IF player_alive THEN "notify" ELSE "prompt"

\* ------------------------------------------------------------------------
\* The observer loop of move_to and the creatures' reactions
\* ------------------------------------------------------------------------
\* Where control goes when a reaction returns: the loop breaks if the player
\* died, and then the game loop ends too.
AfterReaction(player_alive) == IF player_alive THEN "notify" ELSE "over"

\* One iteration of the observer loop: call the next entity's
\* on_player_entered_module, or return to the prompt when the list is done.
Notify ==
    /\ pc = "notify"
    /\ IF pending = <<>>
       THEN /\ pc' = "prompt"
            /\ UNCHANGED <<pending, cur, steps, report>>
       ELSE LET e == Head(pending)
            IN  /\ pending' = Tail(pending)
                /\ IF e = telium
                   THEN /\ \E n \in ESCAPE_STEPS_MIN .. ESCAPE_STEPS_MAX : steps' = n
                        /\ cur' = e
                        /\ pc' = "telium"
                        /\ UNCHANGED report
                   ELSE IF alive[e]
                   THEN /\ cur' = e
                        /\ pc' = "combat"
                        /\ UNCHANGED <<steps, report>>
                   ELSE /\ pc' = AfterReaction(alive[player])
                        /\ UNCHANGED <<cur, steps, report>>
    /\ UNCHANGED <<module, previous_module, entities, visited_by_player,
                   telium_visited_recently, health, alive, attack,
                   flamethrower_fuel, locked_module, energy, lights_out, moves,
                   use_fuel>>

\* Escapes through any door, whatever module it leads to.
AvailableEscapesAnyDoor(at) == {Doors[at][d] : d \in DOMAIN Doors[at]}

\* Telium.on_player_entered_module: the modules it may escape to from `at`.
AvailableEscapes(at) ==
    {Doors[at][d] : d \in DOMAIN Doors[at]}
        \ {previous_module[player], module[player], locked_module}

\* One iteration of the Telium's escape loop (or its end).
TeliumStep ==
    /\ pc = "telium"
    /\ IF steps = 0 \/ AvailableEscapes(module[telium]) = {}
       THEN /\ steps' = 0
            /\ cur' = player
            /\ pc' = AfterReaction(alive[player])
            /\ UNCHANGED <<module, previous_module, entities,
                           telium_visited_recently>>
       ELSE \E m \in AvailableEscapes(module[telium]) :
            /\ entities' = SetModuleEntities(entities, module[telium], telium, m)
            /\ previous_module' = [previous_module EXCEPT ![telium] = module[telium]]
            /\ module' = [module EXCEPT ![telium] = m]
            /\ telium_visited_recently' = [telium_visited_recently EXCEPT ![m] = TRUE]
            /\ steps' = steps - 1
            /\ UNCHANGED <<cur, pc>>
    /\ UNCHANGED <<report, visited_by_player, health, alive, attack, flamethrower_fuel,
                   locked_module, energy, pending, lights_out, moves, use_fuel>>

\* The fuel test left out.
AcceptedAlways(typed, fuel) == TRUE

\* The combat loop's test of the amount typed against the player's fuel.
Accepted(typed, fuel) == typed <= fuel

\* A wounded test with the threshold twice as high.
WoundedEarly(h) == h <= 2 * WOUNDED_HEALTH

\* The combat loop's test for a wounded alien.
Wounded(h) == h <= WOUNDED_HEALTH

\* One pass of WorkerAlien.on_player_entered_module's combat loop, for the
\* integer `typed` at the fuel prompt. The local use_fuel holds it while the
\* loop runs.
CombatInput(typed) ==
    /\ pc = "combat"
    /\ LET a == cur
           h == Hurt(health[a], typed)
           still == AliveAfter(alive[a], h)
       IN  IF Accepted(typed, flamethrower_fuel)
           THEN /\ flamethrower_fuel' = flamethrower_fuel - typed
                /\ IF ~still
                   THEN \* the alien dies
                        /\ health' = [health EXCEPT ![a] = h]
                        /\ alive' = [alive EXCEPT ![a] = still]
                        /\ pc' = AfterReaction(alive[player])
                        /\ cur' = player
                        /\ use_fuel' = 0
                        /\ UNCHANGED <<module, previous_module, entities>>
                   ELSE IF Wounded(h)
                   THEN \* the alien escapes to another module
                        \E m \in RandomModules({module[a]}) :
                        /\ health' = [health EXCEPT ![a] = h]
                        /\ alive' = [alive EXCEPT ![a] = still]
                        /\ entities' = SetModuleEntities(entities, module[a], a, m)
                        /\ previous_module' = [previous_module EXCEPT ![a] = module[a]]
                        /\ module' = [module EXCEPT ![a] = m]
                        /\ pc' = AfterReaction(alive[player])
                        /\ cur' = player
                        /\ use_fuel' = 0
                   ELSE \* the alien bites the player
                        LET ph == Hurt(health[player], attack[a])
                            palive == AliveAfter(alive[player], ph)
                        IN  /\ health' = [health EXCEPT ![a] = h, ![player] = ph]
                            /\ alive' = [alive EXCEPT ![a] = still, ![player] = palive]
                            /\ pc' = IF palive THEN "combat" ELSE AfterReaction(palive)
                            /\ cur' = IF palive THEN cur ELSE player
                            /\ use_fuel' = IF palive THEN typed ELSE 0
                            /\ UNCHANGED <<module, previous_module, entities>>
           ELSE /\ use_fuel' = typed
                /\ UNCHANGED <<module, previous_module, entities, health, alive,
                               flamethrower_fuel, pc, cur>>
    /\ UNCHANGED <<report, visited_by_player, telium_visited_recently, attack,
                   locked_module, energy, pending, steps, lights_out, moves>>

\* int_input: a line that is no integer is refused and the prompt repeats.
CombatNotANumber ==
    /\ pc = "combat"
    /\ UNCHANGED <<report, module, previous_module, entities, visited_by_player,
                   telium_visited_recently, health, alive, attack,
                   flamethrower_fuel, locked_module, energy, pc, pending, cur,
                   steps, lights_out, moves, use_fuel>>

\* The game for a user who types go tokens, lock targets and fuel amounts
\* of the given sets.
NextOn(tokens, targets, amounts) ==
    \/ \E token \in tokens : Go(token)
    \/ \E target \in targets : Lock(target)
    \/ Notify
    \/ TeliumStep
    \/ \E typed \in amounts : CombatInput(typed)
    \/ CombatNotANumber

\* Movement and combat with non-negative amounts, few lock targets.
Next == NextOn(FewGoTokens, FewLockTargets, FuelInputs)

Spec == Init /\ [][Next]_vars

\* The same with any integer typed at the fuel prompt.
NextAnyInteger == NextOn(FewGoTokens, FewLockTargets, IntegerInputs)

SpecAnyInteger == Init /\ [][NextAnyInteger]_vars

\* The lock command in full, few fuel amounts.
NextLock == NextOn(FewGoTokens, LockTargets, FewFuelInputs)

SpecLock == Init /\ [][NextLock]_vars

\* The user types an amount the combat loop accepts.
AcceptedInput ==
    \E typed \in FuelInputs :
        Accepted(typed, flamethrower_fuel) /\ CombatInput(typed)

\* The game of Spec for a user who, at the fuel prompt, does not go on for
\* ever typing lines the loop refuses.
SpecFair == Init /\ [][Next]_vars /\ WF_vars(AcceptedInput)

TypeOK ==
    /\ module \in [Entities -> Modules]
    /\ previous_module \in [Entities -> Modules \cup {None}]
    /\ entities \in [Modules -> Seq(Entities)]
    /\ visited_by_player \in [Modules -> BOOLEAN]
    /\ telium_visited_recently \in [Modules -> BOOLEAN]
    /\ health \in [Hurtables -> Int]
    /\ alive \in [Hurtables -> BOOLEAN]
    /\ attack \in [worker_aliens -> 5 .. 10]
    /\ flamethrower_fuel \in Int
    /\ locked_module \in Modules \cup {None}
    /\ energy \in Int
    /\ pc \in {"prompt", "notify", "telium", "combat", "over"}
    /\ cur \in Entities
    /\ steps \in 0 .. ESCAPE_STEPS_MAX
    /\ use_fuel \in Int
    /\ lights_out \in Nat
    /\ moves \in 0 .. MaxMoves

\* ------------------------------------------------------------------------
\* Properties
\* ------------------------------------------------------------------------
Max(a, b) == IF a >= b THEN a ELSE b

\* How often entity e occurs in the list of module m.
Occurrences(ents, m, e) == Count(ents[m], e)

\* Entity e is in the list of module at and in no other list, once.
OnlyIn(ents, e, at) ==
    \A m \in Modules : Occurrences(ents, m, e) = IF m = at THEN 1 ELSE 0

\* C1: in every reachable state every entity (player, Telium, every
\* WorkerAlien, alive or dead) occurs exactly once in the entity list of its
\* own current module and in no other module's list.
C1_EntityInOneModule ==
    \A e \in Entities : OnlyIn(entities, e, module[e])

\* C1 witness: the player, the Telium and a WorkerAlien have all relocated.
C1_Witness ==
    /\ previous_module[player] # None
    /\ previous_module[telium] # None
    /\ \E a \in worker_aliens : previous_module[a] # None

\* C2: a go command that reaches move_to(M) from module P leaves the player
\* in M's list and in no other list, with current module M and previous
\* module P; and nothing that runs before the next prompt (the observers'
\* reactions) changes the player's position, previous module or list.
C2_MoveTo ==
    [][/\ \A token \in GoTokens :
            (Go(token) /\ moves' # moves) =>
                LET P == module[player]
                    M == Doors[P][Direction(token)]
                IN  /\ module'[player] = M
                    /\ previous_module'[player] = P
                    /\ OnlyIn(entities', player, M)
       /\ pc # "prompt" =>
            /\ module'[player] = module[player]
            /\ previous_module'[player] = previous_module[player]
            /\ \A m \in Modules :
                 Occurrences(entities', m, player) = Occurrences(entities, m, player)
      ]_vars

\* C2 witness: the player went through the door that leads back to the
\* module it was in (M = P) and the move has completed.
C2_Witness ==
    /\ moves > 0
    /\ pc = "prompt"
    /\ previous_module[player] = module[player]

\* hurt as a function, on every reachable health and every amount
\* 0..MaxAmount: the health left and the alive flag left.
C3_HurtFunction ==
    \A e \in Hurtables : \A a \in 0 .. MaxAmount :
        LET h == Hurt(health[e], a)
        IN  /\ h = Max(0, health[e] - a)
            /\ AliveAfter(alive[e], h) <=> h > 0

\* hurt as the combat loop applies it to the alien and to the player, and
\* the permanence of a false alive flag.
C3_HurtStep ==
    /\ \A t \in IntegerInputs :
         (CombatInput(t) /\ t >= 0 /\ t <= flamethrower_fuel) =>
             /\ health'[cur] = Max(0, health[cur] - t)
             /\ alive'[cur] <=> health'[cur] > 0
             /\ health'[player] # health[player] =>
                    health'[player] = Max(0, health[player] - attack[cur])
             /\ alive'[player] <=> health'[player] > 0
    /\ \A e \in Hurtables : ~alive[e] => ~alive'[e]

\* C3: hurt with a non-negative amount a leaves health max(0, h - a), alive
\* is false afterwards exactly when that health is 0, and a false alive flag
\* stays false: for the amounts the combat loop applies to the alien and to
\* the player, and for every amount 0..MaxAmount applied to any reachable
\* health.
C3_Hurt == []C3_HurtFunction /\ [][C3_HurtStep]_vars

\* C3 witness: an alien has bitten the player and then been killed.
C3_Witness ==
    /\ health[player] < PLAYER_HEALTH
    /\ \E a \in worker_aliens : ~alive[a] /\ health[a] = 0

\* C4 (as claimed): no step raises the health of the player or of a
\* WorkerAlien, whatever integers are typed at the combat prompt.
C4_NoHealing ==
    [][\A e \in Hurtables : health'[e] <= health[e]]_vars

\* C5 (as claimed): the player's flamethrower fuel is within 0..100 in every
\* reachable state.
C5_FuelInRange ==
    flamethrower_fuel \in 0 .. PLAYER_FUEL

\* C6: when the amount typed at the combat prompt is greater than the
\* player's fuel, the fuel, every health and alive flag and every entity's
\* position are unchanged and the combat prompt is issued again.
C6_OverRequest ==
    [][\A t \in IntegerInputs :
          (CombatInput(t) /\ t > flamethrower_fuel) =>
              /\ UNCHANGED <<flamethrower_fuel, health, alive, module,
                             previous_module, entities>>
              /\ pc' = "combat"
              /\ cur' = cur
      ]_vars

\* C6 witness: the amount last typed exceeded the fuel and the prompt is up.
C6_Witness ==
    /\ pc = "combat"
    /\ use_fuel > flamethrower_fuel

\* C7: lock(target) for a module other than the locked one with energy >= 20
\* sets the locked module to target and lowers energy by exactly 20; with
\* energy < 20, or the target already locked, or an unknown module id, it
\* changes neither the locked module nor the energy.
C7_LockContract ==
    [][\A t \in LockTargets :
          Lock(t) =>
              IF t \in Modules /\ t # locked_module /\ energy >= 20
              THEN locked_module' = t /\ energy' = energy - 20
              ELSE UNCHANGED <<locked_module, energy>>
      ]_vars

\* The state right after the lock command that took the energy to 0.
JustLockedToZero == energy = 0 /\ report = "locked"

\* C7 witness: a second lock, of another module, has succeeded.
C7_Witness ==
    /\ report = "locked"
    /\ energy = INITIAL_ENERGY - 2 * LOCK_MODULE_ENERGY

\* C8 (as claimed): at energy exactly 20 a lock succeeds and leaves energy
\* 0, and the lock command issued next reports insufficient energy and
\* changes nothing.
C8_LockAtTwenty ==
    [][\A t \in LockTargets :
          Lock(t) =>
              /\ (energy = 20 /\ t \in Modules /\ t # locked_module) =>
                     (report' = "locked" /\ locked_module' = t /\ energy' = 0)
              /\ JustLockedToZero =>
                     /\ report' = "insufficient energy"
                     /\ UNCHANGED <<locked_module, energy>>
      ]_vars

\* C8 (amended): at energy exactly 20 a lock of a module other than the
\* locked one succeeds and leaves energy 0; the lock command issued next
\* changes nothing, and reports insufficient energy when it names another
\* existing module (already locked for the same module, no such module for
\* an unknown id).
C8_LockAtTwentyAmended ==
    [][\A t \in LockTargets :
          Lock(t) =>
              /\ (energy = 20 /\ t \in Modules /\ t # locked_module) =>
                     (report' = "locked" /\ locked_module' = t /\ energy' = 0)
              /\ JustLockedToZero =>
                     /\ UNCHANGED <<locked_module, energy>>
                     /\ report' = IF t \notin Modules THEN "no such module"
                                  ELSE IF t = locked_module THEN "already locked"
                                  ELSE "insufficient energy"
      ]_vars

\* C8 witness: energy is 0 and the last lock command was refused for
\* insufficient energy.
C8_Witness ==
    /\ energy = 0
    /\ report = "insufficient energy"

\* The range of the energy, and deplete_energy as a function of the
\* reachable energy and every amount from it up to MaxAmount above it.
C9_EnergyRange ==
    /\ energy \in 0 .. INITIAL_ENERGY
    /\ \A a \in energy .. (energy + MaxAmount) : DepleteEnergy(energy, a) = 0

\* What a step may do to the energy.
C9_EnergyStep ==
    /\ energy' <= energy
    /\ energy' # energy =>
          \E t \in LockTargets : Lock(t) /\ report' = "locked"

\* C9: energy starts at 100, stays within 0..100, never increases, changes
\* only in a successful lock, and deplete_energy with an amount >= the
\* current energy gives exactly 0.
C9_Energy ==
    /\ energy = INITIAL_ENERGY
    /\ []C9_EnergyRange
    /\ [][C9_EnergyStep]_vars

\* C9 witness: locks have taken the energy down to exactly 0.
C9_Witness ==
    /\ energy = 0
    /\ locked_module # None
    /\ pc = "prompt"

\* The only step that prints the lights-out message.
C10_LightsStep ==
    lights_out' # lights_out => (energy > 0 /\ energy' = 0)

\* C10: the lights-out message is printed at most once in a run, in the
\* step in which energy becomes 0, and never afterwards.
C10_LightsOnce ==
    /\ [](lights_out <= 1)
    /\ [](lights_out = 1 <=> energy = 0)
    /\ [][C10_LightsStep]_vars

\* C10 witness: the lights are out and a later lock command has run.
C10_Witness ==
    /\ lights_out = 1
    /\ report = "already locked"

\* C11: an accepted amount f (f <= fuel) that is at least the alien's health
\* sets the alien's health to 0 and its alive flag to false, lowers the fuel
\* by exactly f, leaves the player's health and alive flag unchanged in that
\* round, leaves the alien in its module and ends the combat loop.
C11_KillingBlow ==
    [][\A t \in IntegerInputs :
          (CombatInput(t) /\ t <= flamethrower_fuel /\ t >= health[cur]) =>
              /\ health'[cur] = 0
              /\ ~alive'[cur]
              /\ flamethrower_fuel' = flamethrower_fuel - t
              /\ health'[player] = health[player]
              /\ alive'[player] = alive[player]
              /\ module'[cur] = module[cur]
              /\ entities' = entities
              /\ pc' # "combat"
      ]_vars

\* C11 witness: the unhurt player has killed an alien with one amount of 8
\* and the dead alien lies in the player's module.
C11_Witness ==
    /\ flamethrower_fuel = PLAYER_FUEL - 8
    /\ health[player] = PLAYER_HEALTH
    /\ \E a \in worker_aliens :
         ~alive[a] /\ health[a] = 0 /\ module[a] = module[player]

\* C12: an accepted amount that leaves the alien's health between 1 and 4
\* relocates the alien to a module different from the one it was in (hence
\* different from the player's module), does no damage to the player in that
\* round, and the combat loop exits without another fuel prompt.
C12_WoundedFlight ==
    [][\A t \in IntegerInputs :
          (/\ CombatInput(t)
           /\ t <= flamethrower_fuel
           /\ health[cur] - t \in 1 .. 4) =>
              /\ health'[cur] = health[cur] - t
              /\ alive'[cur]
              /\ module'[cur] # module[cur]
              /\ module'[cur] # module'[player]
              /\ module[cur] = module[player]
              /\ previous_module'[cur] = module[cur]
              /\ OnlyIn(entities', cur, module'[cur])
              /\ health'[player] = health[player]
              /\ alive'[player] = alive[player]
              /\ pc' = "notify"
      ]_vars

\* C12 witness: back at the prompt, unhurt, after an alien with health left
\* in 1..4 fled from the player's module to another one.
C12_Witness ==
    /\ pc = "prompt"
    /\ health[player] = PLAYER_HEALTH
    /\ \E a \in worker_aliens :
         /\ alive[a]
         /\ health[a] \in 1 .. 4
         /\ previous_module[a] = module[player]
         /\ module[a] # module[player]

\* The observer loop of move_to, step by step: the list to notify is the
\* entered module's list without the player, in list order; reactions are
\* invoked from its head, one at a time, and nothing else touches the list;
\* with the player dead no step follows.
C13_NotifyStep ==
    /\ \A token \in GoTokens :
         (Go(token) /\ moves' # moves) =>
             pending' = Remove(entities'[module'[player]], player)
    /\ (pc = "notify" /\ pending # <<>>) =>
          /\ pending' = Tail(pending)
          /\ pc' \in {"telium", "combat"} => cur' = Head(pending)
          /\ pc' = "combat" => Head(pending) \in worker_aliens
          /\ pc' = "telium" => Head(pending) = telium
    /\ pc \in {"telium", "combat"} => pending' = pending
    /\ ~alive[player] => UNCHANGED <<pc, pending, cur>>

\* C13: move_to notifies the non-player entities of the destination one at
\* a time in the order of the module's list, and once the player's health
\* has reached zero during a reaction no later entity of the list has its
\* reaction invoked.
C13_NotifyInOrder ==
    /\ [](~alive[player] => pc = "over")
    /\ [](pc \in {"telium", "combat"} => alive[player])
    /\ [][C13_NotifyStep]_vars

\* C13 witness: the player died in the reaction of an alien while another
\* entity of the module's list was still to be notified.
C13_Witness ==
    /\ ~alive[player]
    /\ health[player] = 0
    /\ pending # <<>>

\* The modules behind the doors of module at that are neither the player's
\* current module, nor the player's previous module, nor the locked module.
C14_OpenNeighbours(at) ==
    {m \in Modules :
        /\ \E d \in DOMAIN Doors[at] : Doors[at][d] = m
        /\ m # module[player]
        /\ m # previous_module[player]
        /\ m # locked_module}

\* One step while the Telium's reaction runs: a relocation to an open
\* neighbour, which uses up one of the steps drawn, or the end of the flight
\* when no step is left or no neighbour is open.
C14_FlightStep ==
    /\ (pc = "notify" /\ pc' = "telium") => steps' \in 1 .. 3
    /\ pc = "telium" =>
          LET at == module[telium]
          IN  IF steps > 0 /\ C14_OpenNeighbours(at) # {}
              THEN /\ module'[telium] \in C14_OpenNeighbours(at)
                   /\ previous_module'[telium] = at
                   /\ OnlyIn(entities', telium, module'[telium])
                   /\ telium_visited_recently'[module'[telium]]
                   /\ steps' = steps - 1
              ELSE /\ pc' # "telium"
                   /\ UNCHANGED <<module, previous_module, entities,
                                  telium_visited_recently>>
    /\ pc # "telium" => module'[telium] = module[telium]

\* C14: when notified the Telium makes at most 3 relocation steps; each step
\* goes to a door-neighbour of its current module that is not the player's
\* current, previous or locked module; with no such neighbour the flight
\* stops at once; the module entered at each step has
\* telium_visited_recently set.
C14_TeliumFlight ==
    /\ [](steps \in 0 .. 3)
    /\ [](pc # "telium" => steps = 0)
    /\ [][C14_FlightStep]_vars

\* C14 witness: a flight has ended for want of an open neighbour after the
\* Telium moved at least once, with a module locked.
C14_Witness ==
    /\ pc = "notify"
    /\ locked_module # None
    /\ previous_module[telium] # None
    /\ telium_visited_recently[module[telium]]
    /\ C14_OpenNeighbours(module[telium]) = {}

\* C15: the Telium's reaction, from its invocation to its return, leaves
\* unchanged the player's health, alive flag, fuel, position, previous
\* module and locked module, the station's energy, and every WorkerAlien's
\* health, alive flag, attack and position.
C15_TeliumHarmless ==
    [][(pc = "telium" \/ (pc = "notify" /\ pc' = "telium")) =>
          /\ UNCHANGED <<health, alive, attack, flamethrower_fuel,
                         locked_module, energy>>
          /\ \A e \in Entities \ {telium} :
               /\ module'[e] = module[e]
               /\ previous_module'[e] = previous_module[e]
               /\ \A m \in Modules :
                    Occurrences(entities', m, e) = Occurrences(entities, m, e)
      ]_vars

\* C15 witness: the Telium was met and fled, its reaction has returned, and
\* the player and the aliens are as they were created.
C15_Witness ==
    /\ pc = "prompt"
    /\ previous_module[telium] = module[player]
    /\ health[player] = PLAYER_HEALTH
    /\ flamethrower_fuel = PLAYER_FUEL
    /\ energy = INITIAL_ENERGY
    /\ \A a \in worker_aliens : alive[a] /\ previous_module[a] = None

\* A go token the command rejects in the module the player is in: a word
\* that is neither a full compass name nor one of the eight abbreviations,
\* or a direction in which that module has no door.
C16_Rejected(token) ==
    \/ token \notin (DIRECTIONS \cup AliasNames)
    \/ LET full == IF token \in AliasNames THEN DIRECTION_ALIASES[token]
                   ELSE token
       IN  full \notin DOMAIN Doors[module[player]]

\* C16: a rejected go command leaves unchanged the player's module and
\* previous module, every module's visited flags, every creature's position
\* and health, the fuel and the energy, and triggers no creature reaction.
C16_RejectedGo ==
    [][\A token \in GoTokens :
          (Go(token) /\ C16_Rejected(token)) =>
              /\ UNCHANGED <<module, previous_module, entities,
                             visited_by_player, telium_visited_recently,
                             health, alive, flamethrower_fuel, energy,
                             locked_module, moves>>
              /\ pc' = "prompt"
              /\ UNCHANGED <<pending, cur, steps, use_fuel>>
      ]_vars

\* C16 witness: after a move, the player walked into a wall of the module
\* entered.
C16_Witness ==
    /\ pc = "prompt"
    /\ report = "bump into the wall"
    /\ moves = 1
    /\ previous_module[player] # None

\* C17: an accepted amount that leaves the alien alive with health above 4
\* lowers the player's health by that alien's attack value (an integer in
\* 5..10 that never changes after the spawn), clamped at 0; the alien stays
\* in its module, and the loop prompts again exactly when the player is
\* still alive.
C17_Counterattack ==
    [][/\ \A t \in IntegerInputs :
            (/\ CombatInput(t)
             /\ t <= flamethrower_fuel
             /\ health[cur] - t > 4) =>
                /\ attack[cur] \in 5 .. 10
                /\ health'[cur] = health[cur] - t
                /\ alive'[cur]
                /\ health'[player] = Max(0, health[player] - attack[cur])
                /\ alive'[player] <=> health'[player] > 0
                /\ module'[cur] = module[cur]
                /\ entities' = entities
                /\ pc' = "combat" <=> alive'[player]
                /\ pc' = "combat" => cur' = cur
       /\ attack' = attack
      ]_vars

\* C17 witness: an alien with health above 4 has bitten the player once,
\* stays in the player's module, and the fuel prompt is up again.
C17_Witness ==
    /\ pc = "combat"
    /\ cur \in worker_aliens
    /\ health[cur] > 4
    /\ module[cur] = module[player]
    /\ health[player] = PLAYER_HEALTH - attack[cur]

\* The alive flag says exactly that the health is positive, and the alien
\* at the fuel prompt is a living one.
C18_AliveIffHealth ==
    /\ \A e \in Hurtables : alive[e] <=> health[e] > 0
    /\ pc = "combat" => (cur \in worker_aliens /\ alive[cur])

\* What a step may do to the dead: nothing, and the player is only damaged
\* in the combat loop of a living alien.
C18_DeadStep ==
    /\ \A e \in Hurtables : ~alive[e] => (~alive'[e] /\ health'[e] = health[e])
    /\ \A a \in worker_aliens :
         ~alive[a] =>
             /\ module'[a] = module[a]
             /\ previous_module'[a] = previous_module[a]
             /\ \A m \in Modules :
                  Occurrences(entities', m, a) = Occurrences(entities, m, a)
             /\ ~(pc' = "combat" /\ cur' = a)
    /\ health'[player] # health[player] =>
          (pc = "combat" /\ cur \in worker_aliens /\ alive[cur])

\* C18: in every reachable state the player and every WorkerAlien are alive
\* exactly when their health is above 0; an alive flag that is false never
\* becomes true again; a dead WorkerAlien never again changes module, never
\* prompts for fuel and never damages the player.
C18_DeadStaysDead ==
    /\ []C18_AliveIffHealth
    /\ [][C18_DeadStep]_vars

\* C18 witness: the player went through the door that leads back into the
\* module where a dead alien lies, and the observer loop has passed over it.
C18_Witness ==
    /\ pc = "prompt"
    /\ moves = 2
    /\ previous_module[player] = module[player]
    /\ alive[player]
    /\ \E a \in worker_aliens :
         ~alive[a] /\ health[a] = 0 /\ module[a] = module[player]

\* The number of bites of the weakest alien the player's health can take.
C19_Rank == (health[player] + 4) \div 5

\* An accepted amount ends the combat loop, with the alien dead or relocated
\* or the player dead, or lowers the player's health by at least 5, and with
\* it the rank by at least 1.
C19_AcceptedStep ==
    \A t \in IntegerInputs :
        (CombatInput(t) /\ t <= flamethrower_fuel) =>
            IF pc' = "combat"
            THEN /\ health'[player] <= health[player] - 5
                 /\ C19_Rank' <= C19_Rank - 1
                 /\ cur' = cur
            ELSE \/ ~alive'[cur]
                 \/ module'[cur] # module[cur]
                 \/ ~alive'[player]

\* C19: every accepted amount either ends the combat loop (alien killed or
\* fled, or player dead) or lowers the player's health by at least 5; the
\* rank ceil(h/5) is at least 1 at every fuel prompt and falls with every
\* accepted amount that does not end the loop, so from health h the loop
\* ends after at most ceil(h/5) accepted amounts; and if accepted amounts
\* keep arriving the loop does end.
C19_CombatTerminates ==
    /\ [](pc = "combat" => (health[player] > 0 /\ C19_Rank >= 1))
    /\ [][C19_AcceptedStep]_vars
    /\ (pc = "combat") ~> (pc # "combat")

\* C19 witness: the longest loop: an alien of attack 5 has bitten the unhurt
\* player 20 times, no fuel was spent, and the player is dead.
C19_Witness ==
    /\ pc = "over"
    /\ health[player] = 0
    /\ flamethrower_fuel = PLAYER_FUEL
    /\ moves = 1
    /\ \E a \in worker_aliens :
         alive[a] /\ attack[a] = 5 /\ module[a] = module[player]

\* C20: whenever control is at the command prompt with the player alive, no
\* living WorkerAlien is in the player's current module, nor in its list.
C20_NoLivingAlienAtPrompt ==
    (pc = "prompt" /\ alive[player]) =>
        \A a \in worker_aliens :
            alive[a] =>
                /\ module[a] # module[player]
                /\ Occurrences(entities, module[player], a) = 0

\* C20 witness: at the prompt after a fight in which the alien bit the
\* player and then fled from the player's module, still alive.
C20_Witness ==
    /\ pc = "prompt"
    /\ alive[player]
    /\ health[player] < PLAYER_HEALTH
    /\ \E a \in worker_aliens :
         alive[a] /\ previous_module[a] = module[player]

\* With the player dead nothing can run: no command is read, no reaction is
\* invoked, no fuel prompt is answered.
C21_NothingEnabled ==
    /\ ~ENABLED (\E token \in GoTokens : Go(token))
    /\ ~ENABLED (\E target \in LockTargets : Lock(target))
    /\ ~ENABLED Notify
    /\ ~ENABLED TeliumStep
    /\ ~ENABLED (\E typed \in IntegerInputs : CombatInput(typed))
    /\ ~ENABLED CombatNotANumber

\* The step in which the player dies is a bite in the combat loop; it ends
\* the move at once, with the entities still to notify left un-notified and
\* every position as it was; and no step starts from a state with the player
\* dead.
C21_DeathStep ==
    /\ (alive[player] /\ ~alive'[player]) =>
          /\ pc = "combat"
          /\ pc' = "over"
          /\ pending' = pending
          /\ UNCHANGED <<module, previous_module, entities, energy,
                         locked_module>>
    /\ ~alive[player] =>
          UNCHANGED <<module, previous_module, entities, health, alive,
                      flamethrower_fuel, energy, locked_module,
                      visited_by_player, telium_visited_recently, pc,
                      pending, cur, moves>>

\* C21: once the player's alive flag is false, the current move finishes
\* without invoking any further creature reaction, the game loop reads no
\* further command, and no state (positions, health, fuel, energy, locked
\* module) changes afterwards.
C21_GameOverFinal ==
    /\ [](~alive[player] => (health[player] = 0 /\ C21_NothingEnabled))
    /\ [](pc = "over" <=> ~alive[player])
    /\ [][C21_DeathStep]_vars

\* C21 witness: the player died in the second move, after a lock command
\* had locked a module and used energy.
C21_Witness ==
    /\ ~alive[player]
    /\ pc = "over"
    /\ moves = 2
    /\ locked_module # None
    /\ energy = INITIAL_ENERGY - LOCK_MODULE_ENERGY

====
